---- MODULE Spec2Model ----
(***************************************************************************)
(* The BRC-20 index of omnisat/ord: src/index/brc20_index.rs and the       *)
(* modules under src/index/brc20_index/.  One run of index_brc20 walks the *)
(* inscription stream and, for every inscription, runs the deploy, mint or *)
(* transfer validator against the in-memory Brc20Index and writes the      *)
(* accepted scripts to the document store.                                 *)
(*                                                                         *)
(* Text (ticks, decimal amounts) is a sequence of one-character strings.   *)
(* An Option<T> is a sequence of length 0 (None) or 1 (Some).              *)
(* An f64 is the record [m, e] denoting m * 10^e, kept normalised; every   *)
(* value the bounded inputs produce is exactly representable in an f64.    *)
(***************************************************************************)
EXTENDS Integers, Sequences, FiniteSets, TLC

----------------------------------------------------------------------------
(* Option<T> *)

None == <<>>

Some(x) == <<x>>

IsSome(o) == Len(o) = 1

Unwrap(o) == o[1]

----------------------------------------------------------------------------
(* Text *)

Digits == {"0", "1", "2", "3", "4", "5", "6", "7", "8", "9"}

DigitValue(c) ==
  CASE c = "0" -> 0 [] c = "1" -> 1 [] c = "2" -> 2 [] c = "3" -> 3
    [] c = "4" -> 4 [] c = "5" -> 5 [] c = "6" -> 6 [] c = "7" -> 7
    [] c = "8" -> 8 [] c = "9" -> 9

AllDigits(s) == \A i \in 1..Len(s) : s[i] \in Digits

RECURSIVE ParseDigits(_)
\* the unsigned integer written by a non-empty sequence of digits
ParseDigits(s) ==
  IF Len(s) = 0 THEN 0
  ELSE 10 * ParseDigits(SubSeq(s, 1, Len(s) - 1)) + DigitValue(s[Len(s)])

\* char::to_lowercase.  "I_dot" stands for U+0130 (capital I with dot above),
\* whose lowercase is the two characters "i", U+0307 ("dot_above").
to_lowercase_char(c) ==
  CASE c = "A" -> <<"a">> [] c = "B" -> <<"b">> [] c = "C" -> <<"c">>
    [] c = "D" -> <<"d">> [] c = "E" -> <<"e">>
    [] c = "W" -> <<"w">> [] c = "X" -> <<"x">> [] c = "Y" -> <<"y">>
    [] c = "Z" -> <<"z">>
    [] c = "I_dot" -> <<"i", "dot_above">>
    [] OTHER -> <<c>>

RECURSIVE to_lowercase(_)
\* str::to_lowercase: the concatenation of the lowercase of every character
to_lowercase(s) ==
  IF Len(s) = 0 THEN <<>>
  ELSE to_lowercase_char(s[1]) \o to_lowercase(Tail(s))

\* tick.chars().count()
chars_count(s) == Len(s)

UpperChars == {"A", "B", "C", "D", "E", "W", "X", "Y", "Z", "I_dot"}

IsLowercase(s) == \A i \in 1..Len(s) : s[i] \notin UpperChars

----------------------------------------------------------------------------
(* f64 arithmetic on the values m * 10^e *)

RECURSIVE Pow10(_)
Pow10(n) == IF n = 0 THEN 1 ELSE 10 * Pow10(n - 1)

RECURSIVE F64(_, _)
\* the normal form of m * 10^e
F64(m, e) ==
  IF m = 0 THEN [m |-> 0, e |-> 0]
  ELSE IF m % 10 = 0 THEN F64(m \div 10, e + 1)
  ELSE [m |-> m, e |-> e]

Zero == F64(0, 0)

MinOf(a, b) == IF a <= b THEN a ELSE b

FAdd(a, b) ==
  IF a.m = 0 THEN b
  ELSE IF b.m = 0 THEN a
  ELSE LET e == MinOf(a.e, b.e)
       IN  F64(a.m * Pow10(a.e - e) + b.m * Pow10(b.e - e), e)

FNeg(a) == [m |-> 0 - a.m, e |-> a.e]

FSub(a, b) == FAdd(a, FNeg(b))

FGt(a, b) == FSub(a, b).m > 0

FGe(a, b) == FSub(a, b).m >= 0

FLe(a, b) == FGe(b, a)

RECURSIVE FSum(_)
\* iter().sum() over a Vec of f64
FSum(s) == IF Len(s) = 0 THEN Zero ELSE FAdd(FSum(SubSeq(s, 1, Len(s) - 1)), s[Len(s)])

----------------------------------------------------------------------------
(* utils::convert_to_float and the standard parsers *)

DotCount(s) == Cardinality({i \in 1..Len(s) : s[i] = "."})

DotIndex(s) == CHOOSE i \in 1..Len(s) : s[i] = "."

IntegerPart(s) == IF DotCount(s) = 0 THEN s ELSE SubSeq(s, 1, DotIndex(s) - 1)

FractionalPart(s) == IF DotCount(s) = 0 THEN <<>> ELSE SubSeq(s, DotIndex(s) + 1, Len(s))

Ok(v) == [ok |-> TRUE, val |-> v, err |-> ""]

Err(e) == [ok |-> FALSE, val |-> Zero, err |-> e]

\* the integer digits int followed by the fractional digits frac right-padded to
\* dec digits, as an unsigned integer
ConvertParts(int, frac, dec) ==
  IF ~AllDigits(int) \/ ~AllDigits(frac) \/ Len(int) + Len(frac) = 0
  THEN Err("Amount is not a non-negative number")
  ELSE IF Len(frac) > dec THEN Err("Amount has too many decimals")
  ELSE Ok(F64(ParseDigits(int \o frac), dec - Len(frac)))

\* The decimal string s in base units of a ticker with dec decimals.
convert_to_float(s, dec) ==
  IF Len(s) = 0 THEN Err("Amount is empty")
  ELSE IF DotCount(s) > 1 THEN Err("Amount has more than one decimal point")
  ELSE ConvertParts(IntegerPart(s), FractionalPart(s), dec)

U8Max == 255

\* str::parse::<u8>() on a string of this alphabet
parse_u8(s) ==
  IF Len(s) > 0 /\ AllDigits(s) /\ ParseDigits(s) <= U8Max
  THEN Some(ParseDigits(s)) ELSE None

\* the f64 written by the integer digits int and the fractional digits frac
ParseParts(int, frac, sign) ==
  IF AllDigits(int) /\ AllDigits(frac) /\ Len(int) + Len(frac) > 0
  THEN Some(F64(sign * ParseDigits(int \o frac), 0 - Len(frac)))
  ELSE None

ParseUnsigned(s, sign) ==
  IF DotCount(s) <= 1 THEN ParseParts(IntegerPart(s), FractionalPart(s), sign) ELSE None

\* str::parse::<f64>() on a string of this alphabet: an optional "-", digits with
\* at most one ".", at least one digit
parse_f64(s) ==
  IF Len(s) > 0 /\ s[1] = "-" THEN ParseUnsigned(Tail(s), -1) ELSE ParseUnsigned(s, 1)

unwrap_or(o, d) == IF IsSome(o) THEN Unwrap(o) ELSE d

----------------------------------------------------------------------------
(* Maps *)

EmptyMap == <<>>

contains_key(m, k) == k \in DOMAIN m

insert(m, k, v) == [x \in DOMAIN m \cup {k} |-> IF x = k THEN v ELSE m[x]]

----------------------------------------------------------------------------
(* brc20_tx.rs *)

\* Brc20Tx::new on a raw transaction that has a blocktime
Brc20Tx(raw_tx_result, owner) ==
  [tx_id     |-> raw_tx_result.txid,
   vout      |-> raw_tx_result.vout[1].n,
   blocktime |-> Unwrap(raw_tx_result.blocktime),
   owner     |-> owner,
   inputs    |-> raw_tx_result.vin]

get_outpoint(brc20_tx) == [txid |-> brc20_tx.tx_id, vout |-> brc20_tx.vout]

InvalidBrc20Tx(brc20_tx, reason) == [brc20_tx |-> brc20_tx, reason |-> reason]

add_invalid_tx(invalid_tx_map, invalid_tx) ==
  insert(invalid_tx_map, invalid_tx.brc20_tx.tx_id, invalid_tx)

----------------------------------------------------------------------------
(* user_balance.rs *)

\* UserBalance::new as Brc20Ticker::add_mint calls it, without an amount
UserBalance ==
  [overall_balance              |-> Zero,
   active_transfer_inscriptions |-> EmptyMap,
   transfer_sends               |-> <<>>,
   transfer_receives            |-> <<>>,
   mints                        |-> <<>>]

Amounts(txs) == [i \in 1..Len(txs) |-> txs[i].amount]

RECURSIVE SumOver(_, _)
\* values().map(get_amount).sum() over a map
SumOver(m, keys) ==
  IF keys = {} THEN Zero
  ELSE LET k == CHOOSE x \in keys : TRUE
       IN  FAdd(m[k].amount, SumOver(m, keys \ {k}))

get_transferable_balance(ub) ==
  SumOver(ub.active_transfer_inscriptions, DOMAIN ub.active_transfer_inscriptions)

get_available_balance(ub) == FSub(ub.overall_balance, get_transferable_balance(ub))

add_transfer_inscription(ub, transfer_inscription) ==
  [ub EXCEPT !.active_transfer_inscriptions =
     insert(@, get_outpoint(transfer_inscription.inscription_tx), transfer_inscription)]

\* add_mint_tx that keeps the last mint only
keep_mint_tx(ub, mint) == [ub EXCEPT !.mints = <<mint>>]

\* UserBalance::add_mint_tx
add_mint_tx(ub, mint) == [ub EXCEPT !.mints = Append(@, mint)]

\* decrease_overall_balance: Ok with the balance decreased, or Err
decrease_overall_balance(ub, amount) ==
  IF FGe(ub.overall_balance, amount)
  THEN [ok |-> TRUE, ub |-> [ub EXCEPT !.overall_balance = FSub(@, amount)]]
  ELSE [ok |-> FALSE, ub |-> ub]

\* the end of add_transfer_send: the unwrap of the decrease, then the push
PushTransferSend(decreased, transfer_send) ==
  IF decreased.ok
  THEN [panics |-> FALSE, ub |-> [decreased.ub EXCEPT !.transfer_sends = Append(@, transfer_send)]]
  ELSE [panics |-> TRUE, ub |-> decreased.ub]

add_transfer_send(ub, transfer_send) ==
  PushTransferSend(decrease_overall_balance(ub, transfer_send.amount), transfer_send)

get_total_amount_from_transfer_sends(ub) == FSum(Amounts(ub.transfer_sends))

get_total_amount_from_transfer_receives(ub) == FSum(Amounts(ub.transfer_receives))

get_total_amount_from_mints(ub) == FSum(Amounts(ub.mints))

get_overall_balance_from_txs(ub) ==
  FAdd(FSub(get_total_amount_from_transfer_receives(ub),
            get_total_amount_from_transfer_sends(ub)),
       get_total_amount_from_mints(ub))

----------------------------------------------------------------------------
(* deploy.rs *)

DefaultDecimals == 18

MaxDecimals == 18

TickLength == 4

\* Brc20DeployTx::new
Brc20DeployTx(brc20_tx, deploy_script) ==
  [max_supply    |-> Zero,
   limit         |-> Zero,
   decimals      |-> DefaultDecimals,
   brc20_tx      |-> brc20_tx,
   deploy_script |-> deploy_script,
   is_valid      |-> FALSE]

\* decimals.parse::<u8>().unwrap() panics on a "dec" that is no u8
DeployPanics(deploy_script) ==
  IsSome(deploy_script.dec) /\ ~IsSome(parse_u8(Unwrap(deploy_script.dec)))

\* CheckTick without the test of the registry
CheckTickLengthOnly(d, ticker_map) ==
  IF chars_count(d.self.deploy_script.tick) # TickLength
  THEN [d EXCEPT !.reason = "Ticker symbol must be 4 characters long"]
  ELSE d

\* validate_deploy_script keeps the deploy and `reason` in d = [self, reason].
\* The tick: already registered in lowercase, or not 4 characters long
CheckTick(d, ticker_map) ==
  IF contains_key(ticker_map, to_lowercase(d.self.deploy_script.tick))
  THEN [d EXCEPT !.reason = "Ticker symbol already exists"]
  ELSE IF chars_count(d.self.deploy_script.tick) # TickLength
  THEN [d EXCEPT !.reason = "Ticker symbol must be 4 characters long"]
  ELSE d

SetDecimals(d, decimals) ==
  IF decimals > MaxDecimals
  THEN [d EXCEPT !.reason = "Decimals must be 18 or less"]
  ELSE [d EXCEPT !.self.decimals = decimals]

\* "dec", if given, is 18 or less
CheckDec(d) ==
  IF IsSome(d.self.deploy_script.dec)
  THEN SetDecimals(d, Unwrap(parse_u8(Unwrap(d.self.deploy_script.dec))))
  ELSE d

\* SetMax without the comparison of the max supply with 0
SetMaxUnchecked(d, max) ==
  IF max.ok
  THEN [d EXCEPT !.self.max_supply = max.val]
  ELSE [d EXCEPT !.reason = max.err]

SetMax(d, max) ==
  IF max.ok
  THEN IF max.val = Zero
       THEN [d EXCEPT !.reason = "Max supply must be greater than 0"]
       ELSE [d EXCEPT !.self.max_supply = max.val]
  ELSE [d EXCEPT !.reason = max.err]

\* "max" is an amount greater than 0
CheckMax(d) == SetMax(d, convert_to_float(d.self.deploy_script.max, d.self.decimals))

\* SetLimit without the comparison of the limit with the max supply
SetLimitUnbounded(d, limit) ==
  IF limit.ok
  THEN IF limit.val = Zero
       THEN [d EXCEPT !.self.limit = d.self.max_supply]
       ELSE [d EXCEPT !.self.limit = limit.val]
  ELSE [d EXCEPT !.reason = limit.err]

SetLimit(d, limit) ==
  IF limit.ok
  THEN IF FGt(limit.val, d.self.max_supply)
       THEN [d EXCEPT !.reason = "Limit must be less than or equal to max supply"]
       ELSE IF limit.val = Zero
       THEN [d EXCEPT !.self.limit = d.self.max_supply]
       ELSE [d EXCEPT !.self.limit = limit.val]
  ELSE [d EXCEPT !.reason = limit.err]

\* "lim" is an amount of at most the max supply; 0 or none stands for the max supply
CheckLimit(d) ==
  SetLimit(d, convert_to_float(unwrap_or(d.self.deploy_script.lim, <<"0">>), d.self.decimals))

\* the checks of validate_deploy_script in their order, for a script on which
\* it does not panic
DeployChecks(self, ticker_map) ==
  CheckLimit(CheckMax(CheckDec(CheckTick([self |-> self, reason |-> ""], ticker_map))))

\* set_valid(reason.is_empty()) and the entry of an invalid deploy
SetValid(d, invalid_tx_map) ==
  [tx             |-> [d.self EXCEPT !.is_valid = (d.reason = "")],
   reason         |-> d.reason,
   invalid_tx_map |-> IF d.reason # ""
                      THEN add_invalid_tx(invalid_tx_map,
                                          InvalidBrc20Tx(d.self.brc20_tx, d.reason))
                      ELSE invalid_tx_map]

\* Brc20DeployTx::validate_deploy_script: the returned deploy and the invalid map
validate_deploy_script(self, invalid_tx_map, ticker_map) ==
  SetValid(DeployChecks(self, ticker_map), invalid_tx_map)

----------------------------------------------------------------------------
(* brc20_ticker.rs *)

\* Brc20Ticker::new with the limit field filled from max_supply: a variant the
\* registration property RegistersDecodedTicker must tell from Brc20Ticker
Brc20TickerLimitFromMax(deploy_tx) ==
  [ticker       |-> deploy_tx.deploy_script.tick,
   limit        |-> deploy_tx.max_supply,
   max_supply   |-> deploy_tx.max_supply,
   total_minted |-> Zero,
   decimals     |-> deploy_tx.decimals,
   deploy_tx    |-> deploy_tx,
   mints        |-> <<>>,
   transfers    |-> <<>>,
   balances     |-> EmptyMap]

\* Brc20Ticker::new
Brc20Ticker(deploy_tx) ==
  [ticker       |-> deploy_tx.deploy_script.tick,
   limit        |-> deploy_tx.limit,
   max_supply   |-> deploy_tx.max_supply,
   total_minted |-> Zero,
   decimals     |-> deploy_tx.decimals,
   deploy_tx    |-> deploy_tx,
   mints        |-> <<>>,
   transfers    |-> <<>>,
   balances     |-> EmptyMap]

get_ticker(ticker) == to_lowercase(ticker.ticker)

\* the value mint.rs reads as ticker.get_total_minted(): the total_minted field
get_total_minted(ticker) == ticker.total_minted

get_total_minted_from_mint_txs(ticker) == FSum(Amounts(ticker.mints))

\* add_mint with the amount added to total_minted and to no balance
add_mint_totalling(ticker, mint) ==
  LET owner == mint.brc20_tx.owner
  IN  [ticker EXCEPT
         !.total_minted = FAdd(@, mint.amount),
         !.balances = IF contains_key(@, owner)
                      THEN [@ EXCEPT ![owner] = add_mint_tx(@, mint)]
                      ELSE insert(@, owner, add_mint_tx(UserBalance, mint)),
         !.mints = Append(@, mint)]

\* Brc20Ticker::add_mint
add_mint(ticker, mint) ==
  LET owner == mint.brc20_tx.owner
  IN  [ticker EXCEPT
         !.balances = IF contains_key(@, owner)
                      THEN [@ EXCEPT ![owner] = add_mint_tx(@, mint)]
                      ELSE insert(@, owner, add_mint_tx(UserBalance, mint)),
         !.mints = Append(@, mint)]

\* Brc20Ticker::get_user_balance: a clone of the balance, if any
get_user_balance(ticker, address) ==
  IF contains_key(ticker.balances, address) THEN Some(ticker.balances[address]) ELSE None

----------------------------------------------------------------------------
(* mint.rs *)

\* Brc20MintTx::new
Brc20MintTx(brc20_tx, mint) ==
  [brc20_tx |-> brc20_tx, mint |-> mint, amount |-> Zero, is_valid |-> FALSE]

\* the end of validate with add_mint outside the `else`, applied to every mint
\* of a registered ticker: a variant the frame property RejectedLeavesRegistry
\* must tell from FinishMint
FinishMintUnguarded(tx, is_valid, reason, ticker_map, invalid_tx_map) ==
  [tx             |-> [tx EXCEPT !.is_valid = is_valid],
   reason         |-> reason,
   invalid_tx_map |-> IF ~is_valid
                      THEN add_invalid_tx(invalid_tx_map, InvalidBrc20Tx(tx.brc20_tx, reason))
                      ELSE invalid_tx_map,
   ticker_map     |-> IF contains_key(ticker_map, tx.mint.tick)
                      THEN [ticker_map EXCEPT ![tx.mint.tick] = add_mint(@, tx)]
                      ELSE ticker_map]

\* the end of validate: the entry of an invalid mint, add_mint of a valid one
\* (the record added is the clone made before is_valid is set)
FinishMint(tx, is_valid, reason, ticker_map, invalid_tx_map) ==
  [tx             |-> [tx EXCEPT !.is_valid = is_valid],
   reason         |-> reason,
   invalid_tx_map |-> IF ~is_valid
                      THEN add_invalid_tx(invalid_tx_map, InvalidBrc20Tx(tx.brc20_tx, reason))
                      ELSE invalid_tx_map,
   ticker_map     |-> IF is_valid
                      THEN [ticker_map EXCEPT ![tx.mint.tick] = add_mint(@, tx)]
                      ELSE ticker_map]

\* the checks of validate on the decoded amount
\* CheckAmount with the comparison with the max supply ahead of the one with
\* the limit
CheckAmountMaxFirst(tx, ticker, amount, ticker_map, invalid_tx_map) ==
  IF ~amount.ok THEN FinishMint(tx, FALSE, amount.err, ticker_map, invalid_tx_map)
  ELSE IF FGt(FAdd(get_total_minted(ticker), amount.val), ticker.max_supply)
  THEN FinishMint([tx EXCEPT !.amount = FSub(ticker.max_supply, get_total_minted(ticker))],
                  TRUE, "Total minted amount exceeds maximum. Adjusted mint amount",
                  ticker_map, invalid_tx_map)
  ELSE IF FGt(amount.val, ticker.limit)
  THEN FinishMint(tx, FALSE, "Mint amount exceeds limit", ticker_map, invalid_tx_map)
  ELSE FinishMint([tx EXCEPT !.amount = amount.val], TRUE, "", ticker_map, invalid_tx_map)

CheckAmount(tx, ticker, amount, ticker_map, invalid_tx_map) ==
  IF ~amount.ok
  THEN FinishMint(tx, FALSE, amount.err, ticker_map, invalid_tx_map)
  ELSE IF FGt(amount.val, ticker.limit)
  THEN FinishMint(tx, FALSE, "Mint amount exceeds limit", ticker_map, invalid_tx_map)
  ELSE IF FGt(FAdd(get_total_minted(ticker), amount.val), ticker.max_supply)
  THEN FinishMint([tx EXCEPT !.amount = FSub(ticker.max_supply, get_total_minted(ticker))],
                  TRUE, "Total minted amount exceeds maximum. Adjusted mint amount",
                  ticker_map, invalid_tx_map)
  ELSE FinishMint([tx EXCEPT !.amount = amount.val], TRUE, "", ticker_map, invalid_tx_map)

\* Brc20Mint::validate: the returned mint, the reason, the two maps
validate(mint, brc20_tx, ticker_map, invalid_tx_map) ==
  IF contains_key(ticker_map, mint.tick)
  THEN CheckAmount(Brc20MintTx(brc20_tx, mint), ticker_map[mint.tick],
                   convert_to_float(mint.amt, ticker_map[mint.tick].decimals),
                   ticker_map, invalid_tx_map)
  ELSE FinishMint(Brc20MintTx(brc20_tx, mint), FALSE, "Ticker symbol does not exist",
                  ticker_map, invalid_tx_map)

----------------------------------------------------------------------------
(* transfer.rs *)

\* Brc20TransferTx::new
Brc20TransferTx(inscription_tx, transfer_script) ==
  [inscription_tx  |-> inscription_tx,
   transfer_tx     |-> None,
   transfer_script |-> transfer_script,
   amount          |-> unwrap_or(parse_f64(transfer_script.amt), Zero),
   receiver        |-> None,
   is_valid        |-> FALSE]

\* set_validity that leaves the record as it is
keep_validity(self, is_valid) == self

\* Brc20TransferTx::set_validity
set_validity(self, is_valid) == [self EXCEPT !.is_valid = is_valid]

\* FinishTransfer without the entry of a rejected transfer
FinishTransferUnrecorded(self, reason, added_to, ticker_map, invalid_tx_map) ==
  [tx             |-> self,
   reason         |-> reason,
   added_to       |-> added_to,
   invalid_tx_map |-> invalid_tx_map,
   ticker_map     |-> ticker_map]

\* the end of handle_inscribe_transfer_amount: the record returned is the clone
\* made on entry, the invalid map has the entry of a rejected transfer, and the
\* ticker map is as it was; added_to is the balance the inscription was added to
FinishTransfer(self, reason, added_to, ticker_map, invalid_tx_map) ==
  [tx             |-> self,
   reason         |-> reason,
   added_to       |-> added_to,
   invalid_tx_map |-> IF reason # ""
                      THEN add_invalid_tx(invalid_tx_map,
                                          InvalidBrc20Tx(self.inscription_tx, reason))
                      ELSE invalid_tx_map,
   ticker_map     |-> ticker_map]

\* the branch of a ticker that exists with the comparison of the available
\* balance turned round: a variant the balance property TransferableAtMostOverall
\* must tell from CheckBalance
CheckBalanceReversed(self, user_balance, transfer_amount, ticker_map, invalid_tx_map) ==
  IF ~IsSome(user_balance)
  THEN FinishTransfer(self, "User balance not found", None, ticker_map, invalid_tx_map)
  ELSE IF FLe(get_available_balance(Unwrap(user_balance)), transfer_amount)
  THEN FinishTransfer(self, "",
                      Some(add_transfer_inscription(Unwrap(user_balance),
                                                    set_validity(self, TRUE))),
                      ticker_map, invalid_tx_map)
  ELSE FinishTransfer(self, "Transfer amount exceeds available balance", None,
                      ticker_map, invalid_tx_map)

\* CheckBalance without the comparison of the amount with the available balance
CheckBalanceUnchecked(self, user_balance, transfer_amount, ticker_map, invalid_tx_map) ==
  IF ~IsSome(user_balance)
  THEN FinishTransfer(self, "User balance not found", None, ticker_map, invalid_tx_map)
  ELSE FinishTransfer(self, "",
                      Some(add_transfer_inscription(Unwrap(user_balance),
                                                    set_validity(self, TRUE))),
                      ticker_map, invalid_tx_map)

\* the branch of a ticker that exists: user_balance is the clone of the owner's
\* balance that get_user_balance returns, and it is the clone that
\* add_transfer_inscription changes
CheckBalance(self, user_balance, transfer_amount, ticker_map, invalid_tx_map) ==
  IF ~IsSome(user_balance)
  THEN FinishTransfer(self, "User balance not found", None, ticker_map, invalid_tx_map)
  ELSE IF FGe(get_available_balance(Unwrap(user_balance)), transfer_amount)
  THEN FinishTransfer(self, "",
                      Some(add_transfer_inscription(Unwrap(user_balance),
                                                    set_validity(self, TRUE))),
                      ticker_map, invalid_tx_map)
  ELSE FinishTransfer(self, "Transfer amount exceeds available balance", None,
                      ticker_map, invalid_tx_map)

\* Brc20TransferTx::handle_inscribe_transfer_amount
handle_inscribe_transfer_amount(self, ticker_map, invalid_tx_map) ==
  IF contains_key(ticker_map, self.transfer_script.tick)
  THEN CheckBalance(self,
                    get_user_balance(ticker_map[self.transfer_script.tick],
                                     self.inscription_tx.owner),
                    unwrap_or(parse_f64(self.transfer_script.amt), Zero),
                    ticker_map, invalid_tx_map)
  ELSE FinishTransfer(self, "Ticker not found", None, ticker_map, invalid_tx_map)

----------------------------------------------------------------------------
(* The chain and the inscription stream *)

MaxEvents == 3

Tx1 == "t1"

Tx2 == "t2"

Tx3 == "t3"

TxIds == {Tx1, Tx2, Tx3}

\* index.client.get_raw_transaction_info: t1 pays two outputs to A; t2 spends the
\* first output of t1 and pays B and an output no address can be derived from;
\* t3 has no blocktime yet
get_raw_transaction_info(txid) ==
  CASE txid = Tx1 ->
         [txid |-> Tx1, blocktime |-> Some(100), vin |-> <<>>,
          vout |-> <<[n |-> 0, address |-> Some("A")], [n |-> 1, address |-> Some("A")]>>]
    [] txid = Tx2 ->
         [txid |-> Tx2, blocktime |-> Some(200), vin |-> <<[txid |-> Tx1, vout |-> 0]>>,
          vout |-> <<[n |-> 0, address |-> Some("B")], [n |-> 1, address |-> None]>>]
    [] txid = Tx3 ->
         [txid |-> Tx3, blocktime |-> None, vin |-> <<>>,
          vout |-> <<[n |-> 0, address |-> Some("A")]>>]

\* the outpoints of the chain's transactions, where an inscription can sit
Locations ==
  {[txid |-> t, vout |-> v] : t \in {Tx1, Tx2}, v \in {0, 1}} \cup {[txid |-> Tx3, vout |-> 0]}

\* get_owner_of_output: the address of the output's script, if one can be derived
get_owner_of_output(outpoint, raw_tx_info) == raw_tx_info.vout[outpoint.vout + 1].address

Json(op, tick, max, lim, dec, amt) ==
  [p |-> Some("brc-20"), op |-> op, tick |-> tick, max |-> max, lim |-> lim,
   dec |-> dec, amt |-> amt]

DeployJson(tick, max, lim, dec) == Json(Some("deploy"), Some(tick), Some(max), lim, dec, None)

MintJson(tick, amt) == Json(Some("mint"), Some(tick), None, None, None, Some(amt))

TransferJson(tick, amt) == Json(Some("transfer"), Some(tick), None, None, None, Some(amt))

JsonContentType == "application/json"

TextContentType == "text/plain;charset=utf-8"

\* an inscription whose body is the JSON document j
Inscribed(j) ==
  Some([content_type |-> Some(TextContentType), body |-> Some([utf8 |-> TRUE, json |-> Some(j)])])

TickAbcd == <<"a", "b", "c", "d">>

TickABCD == <<"A", "B", "C", "D">>

TickWxyz == <<"w", "x", "y", "z">>

TickDotted == <<"I_dot", "b", "c", "d">>

DeployTicks == {TickAbcd, TickABCD, TickWxyz, TickDotted, <<"a", "b", "c">>, <<"a", "b", "c", "d", "e">>}

\* deploy scripts: every tick with a plain script, and on one tick the variations
\* of "max", "lim" and "dec"
DeployScripts ==
  {DeployJson(t, <<"3">>, None, Some(<<"0">>)) : t \in DeployTicks}
  \cup {DeployJson(TickAbcd, max, Some(<<"0">>), Some(<<"1">>)) :
          max \in {<<"0">>, <<"1", ".", "5">>, <<"x">>}}
  \cup {DeployJson(TickAbcd, <<"3">>, lim, Some(<<"0">>)) :
          lim \in {Some(<<"2">>), Some(<<"9">>), Some(<<"x">>)}}
  \cup {DeployJson(TickAbcd, <<"3">>, None, dec) :
          dec \in {None, Some(<<"1", "9">>), Some(<<"x">>)}}
  \cup {DeployJson(<<"a", "b", "c">>, <<"3">>, None, Some(<<"x">>))}

AmountTexts == {<<"0">>, <<"1">>, <<"2">>, <<"3">>, <<"1", ".", "5">>, <<"-", "1">>, <<"x">>}

OtherTicks == {TickABCD, TickWxyz, to_lowercase(TickDotted)}

MintScripts ==
  {MintJson(TickAbcd, a) : a \in AmountTexts} \cup {MintJson(t, <<"1">>) : t \in OtherTicks}

TransferScripts ==
  {TransferJson(TickAbcd, a) : a \in AmountTexts}
  \cup {TransferJson(t, <<"0">>) : t \in OtherTicks}

\* inscriptions that are no BRC-20 operation
OtherInscriptions ==
  { None,
    Some([content_type |-> None, body |-> None]),
    Some([content_type |-> Some("image/png"), body |-> Some([utf8 |-> TRUE, json |-> None])]),
    Some([content_type |-> Some(JsonContentType), body |-> None]),
    Some([content_type |-> Some(JsonContentType), body |-> Some([utf8 |-> TRUE, json |-> None])]),
    Inscribed(Json(Some("list"), Some(TickAbcd), Some(<<"3">>), None, None, Some(<<"1">>))),
    Inscribed(Json(Some("deploy"), Some(TickAbcd), None, None, None, None)),
    Inscribed(Json(Some("mint"), Some(TickAbcd), None, None, None, None)) }

NonUtf8Inscription ==
  Some([content_type |-> Some(TextContentType), body |-> Some([utf8 |-> FALSE, json |-> None])])

----------------------------------------------------------------------------
(* brc20_index.rs: index_brc20 *)

VARIABLES
  tickers,          \* Brc20Index.tickers: lowercase tick -> Brc20Ticker
  invalid_tx_map,   \* Brc20Index.invalid_tx_map: txid -> InvalidBrc20Tx
  sink,             \* the documents inserted into collection "brcs", in order
  status,           \* "running", "finished" (Ok), "failed" (Err), "panicked"
  processed,        \* the number of inscriptions the loop has taken
  last,             \* the loop body's locals at the end of the last iteration
  inscribed         \* the transfers handle_inscribe_transfer_amount has marked valid

vars == <<tickers, invalid_tx_map, sink, status, processed, last, inscribed>>

\* the inscription is one the loop body looks into: it exists, its content type
\* is JSON or plain text, and it has a body
HasBody(inscription) ==
  /\ IsSome(inscription)
  /\ IsSome(Unwrap(inscription).content_type)
  /\ Unwrap(Unwrap(inscription).content_type) \in {JsonContentType, TextContentType}
  /\ IsSome(Unwrap(inscription).body)

Body(inscription) == Unwrap(Unwrap(inscription).body)

\* the `?` of str::from_utf8, get_owner_of_output or Brc20Tx::new returns Err
Fails(location, inscription) ==
  \/ ~Body(inscription).utf8
  \/ ~IsSome(get_owner_of_output(location, get_raw_transaction_info(location.txid)))
  \/ ~IsSome(get_raw_transaction_info(location.txid).blocktime)

\* the locals of an iteration that one of these `?` has ended: the location and
\* whether the body was UTF-8 (if not, the oracle was not asked)
Failed(location, inscription) ==
  [op |-> "error", location |-> location, utf8 |-> Body(inscription).utf8]

\* serde_json::from_str::<Brc20Deploy>
ParsesAsDeploy(body) ==
  /\ IsSome(body.json)
  /\ \A f \in {"p", "op", "tick", "max"} : IsSome(Unwrap(body.json)[f])

\* serde_json::from_str::<Brc20Mint> and ::<Brc20Transfer>
ParsesAsMint(body) ==
  /\ IsSome(body.json)
  /\ \A f \in {"p", "op", "tick", "amt"} : IsSome(Unwrap(body.json)[f])

Brc20Deploy(json) ==
  [p |-> Unwrap(json.p), op |-> Unwrap(json.op), tick |-> Unwrap(json.tick),
   max |-> Unwrap(json.max), lim |-> json.lim, dec |-> json.dec]

Brc20Mint(json) ==
  [p |-> Unwrap(json.p), op |-> Unwrap(json.op), tick |-> Unwrap(json.tick),
   amt |-> Unwrap(json.amt)]

\* a Brc20Transfer has the fields of a Brc20Mint
Brc20Transfer(json) == Brc20Mint(json)

\* the body parses as the struct of the operation op and its "op" is op; of the
\* three blocks of the loop body at most one runs, "op" having one value
IsOp(body, op) ==
  /\ IF op = "deploy" THEN ParsesAsDeploy(body) ELSE ParsesAsMint(body)
  /\ Unwrap(Unwrap(body.json).op) = op

\* the Brc20Tx the loop body builds for the inscription at location
TxOf(location) ==
  Brc20Tx(get_raw_transaction_info(location.txid),
          Unwrap(get_owner_of_output(location, get_raw_transaction_info(location.txid))))

\* to_document: the script's fields
to_document(script) == script

\* the Brc20Index, the sink and the state of the run, as one value
Index == [tickers |-> tickers, invalid_tx_map |-> invalid_tx_map, sink |-> sink,
          status |-> status]

\* the loop body after validate_deploy_script: insert the document of a valid
\* deploy, then register its ticker
RegisterDeploy(idx, location, validated_deploy_tx) ==
  [tickers        |-> IF validated_deploy_tx.tx.is_valid
                      THEN insert(idx.tickers,
                                  get_ticker(Brc20Ticker(validated_deploy_tx.tx)),
                                  Brc20Ticker(validated_deploy_tx.tx))
                      ELSE idx.tickers,
   invalid_tx_map |-> validated_deploy_tx.invalid_tx_map,
   sink           |-> IF validated_deploy_tx.tx.is_valid
                      THEN Append(idx.sink, to_document(validated_deploy_tx.tx.deploy_script))
                      ELSE idx.sink,
   status         |-> idx.status,
   last           |-> [op |-> "deploy", location |-> location,
                       tx |-> validated_deploy_tx.tx,
                       reason |-> validated_deploy_tx.reason],
   valid          |-> {}]

\* the iteration of the loop for a deploy script
index_deploy(idx, location, deploy) ==
  IF DeployPanics(deploy)
  THEN [idx EXCEPT !.status = "panicked"]
       @@ [last |-> [op |-> "panic", location |-> location, script |-> deploy], valid |-> {}]
  ELSE RegisterDeploy(idx, location,
                      validate_deploy_script(Brc20DeployTx(TxOf(location), deploy),
                                             idx.invalid_tx_map, idx.tickers))

\* InsertMint with the insert outside the test of is_valid
InsertMintUnguarded(idx, location, mint_tx) ==
  [tickers        |-> mint_tx.ticker_map,
   invalid_tx_map |-> mint_tx.invalid_tx_map,
   sink           |-> Append(idx.sink, to_document(mint_tx.tx.mint)),
   status         |-> idx.status,
   last           |-> [op |-> "mint", location |-> location, tx |-> mint_tx.tx,
                       reason |-> mint_tx.reason],
   valid          |-> {}]

\* the loop body after validate: insert the document of a valid mint
InsertMint(idx, location, mint_tx) ==
  [tickers        |-> mint_tx.ticker_map,
   invalid_tx_map |-> mint_tx.invalid_tx_map,
   sink           |-> IF mint_tx.tx.is_valid
                      THEN Append(idx.sink, to_document(mint_tx.tx.mint))
                      ELSE idx.sink,
   status         |-> idx.status,
   last           |-> [op |-> "mint", location |-> location, tx |-> mint_tx.tx,
                       reason |-> mint_tx.reason],
   valid          |-> {}]

\* the iteration of the loop for a mint script
index_mint(idx, location, mint) ==
  InsertMint(idx, location, validate(mint, TxOf(location), idx.tickers, idx.invalid_tx_map))

\* InsertTransfer with the insert for every transfer the handler has accepted,
\* whatever is_valid the returned record has
InsertTransferOnAccept(idx, location, brc20_transfer_tx) ==
  [tickers        |-> brc20_transfer_tx.ticker_map,
   invalid_tx_map |-> brc20_transfer_tx.invalid_tx_map,
   sink           |-> IF brc20_transfer_tx.reason = ""
                      THEN Append(idx.sink, to_document(brc20_transfer_tx.tx.transfer_script))
                      ELSE idx.sink,
   status         |-> idx.status,
   last           |-> [op |-> "transfer", location |-> location,
                       tx |-> brc20_transfer_tx.tx,
                       reason |-> brc20_transfer_tx.reason,
                       added_to |-> brc20_transfer_tx.added_to],
   valid          |-> IF brc20_transfer_tx.reason = ""
                      THEN {[location |-> location,
                             outpoint |-> get_outpoint(brc20_transfer_tx.tx.inscription_tx),
                             tick     |-> brc20_transfer_tx.tx.transfer_script.tick,
                             amount   |-> brc20_transfer_tx.tx.amount,
                             owner    |-> brc20_transfer_tx.tx.inscription_tx.owner]}
                      ELSE {}]

\* the loop body after handle_inscribe_transfer_amount: insert the document of
\* a transfer returned valid
InsertTransfer(idx, location, brc20_transfer_tx) ==
  [tickers        |-> brc20_transfer_tx.ticker_map,
   invalid_tx_map |-> brc20_transfer_tx.invalid_tx_map,
   sink           |-> IF brc20_transfer_tx.tx.is_valid
                      THEN Append(idx.sink, to_document(brc20_transfer_tx.tx.transfer_script))
                      ELSE idx.sink,
   status         |-> idx.status,
   last           |-> [op |-> "transfer", location |-> location,
                       tx |-> brc20_transfer_tx.tx,
                       reason |-> brc20_transfer_tx.reason,
                       added_to |-> brc20_transfer_tx.added_to],
   valid          |-> IF brc20_transfer_tx.reason = ""
                      THEN {[location |-> location,
                             outpoint |-> get_outpoint(brc20_transfer_tx.tx.inscription_tx),
                             tick     |-> brc20_transfer_tx.tx.transfer_script.tick,
                             amount   |-> brc20_transfer_tx.tx.amount,
                             owner    |-> brc20_transfer_tx.tx.inscription_tx.owner]}
                      ELSE {}]

\* the iteration of the loop for a transfer script
index_transfer(idx, location, transfer) ==
  InsertTransfer(idx, location,
                 handle_inscribe_transfer_amount(Brc20TransferTx(TxOf(location), transfer),
                                                 idx.tickers, idx.invalid_tx_map))

\* one iteration of the loop of index_brc20, on the inscription at location
index_inscription(idx, location, inscription) ==
  IF ~HasBody(inscription)
  THEN idx @@ [last |-> [op |-> "skip"], valid |-> {}]
  ELSE IF Fails(location, inscription)
  THEN [idx EXCEPT !.status = "failed"] @@ [last |-> Failed(location, inscription), valid |-> {}]
  ELSE IF IsOp(Body(inscription), "deploy")
  THEN index_deploy(idx, location, Brc20Deploy(Unwrap(Body(inscription).json)))
  ELSE IF IsOp(Body(inscription), "mint")
  THEN index_mint(idx, location, Brc20Mint(Unwrap(Body(inscription).json)))
  ELSE IF IsOp(Body(inscription), "transfer")
  THEN index_transfer(idx, location, Brc20Transfer(Unwrap(Body(inscription).json)))
  ELSE idx @@ [last |-> [op |-> "ignore"], valid |-> {}]

Init ==
  /\ tickers = EmptyMap
  /\ invalid_tx_map = EmptyMap
  /\ sink = <<>>
  /\ status = "running"
  /\ processed = 0
  /\ last = [op |-> "none"]
  /\ inscribed = {}

\* the loop has not ended and the stream has a next inscription
Taking == status = "running" /\ processed < MaxEvents

\* the loop has run its body and is in the state r
Becomes(r) ==
  /\ processed' = processed + 1
  /\ tickers' = r.tickers
  /\ invalid_tx_map' = r.invalid_tx_map
  /\ sink' = r.sink
  /\ status' = r.status
  /\ last' = r.last
  /\ inscribed' = inscribed \cup r.valid

\* the inscription is missing, of another content type, or has no body
Skip(location, inscription) ==
  /\ Taking
  /\ ~HasBody(inscription)
  /\ Becomes(Index @@ [last |-> [op |-> "skip"], valid |-> {}])

\* an error of the body's encoding or of the oracle ends index_brc20 with Err
Fail(location, inscription) ==
  /\ Taking
  /\ HasBody(inscription)
  /\ Fails(location, inscription)
  /\ Becomes([Index EXCEPT !.status = "failed"]
             @@ [last |-> Failed(location, inscription), valid |-> {}])

\* the body has none of the three shapes with a matching "op"
Ignore(location, inscription) ==
  /\ Taking
  /\ HasBody(inscription)
  /\ ~Fails(location, inscription)
  /\ \A op \in {"deploy", "mint", "transfer"} : ~IsOp(Body(inscription), op)
  /\ Becomes(Index @@ [last |-> [op |-> "ignore"], valid |-> {}])

\* a deploy script: validate, insert the document, register the ticker
Deploy(location, inscription) ==
  /\ Taking
  /\ HasBody(inscription)
  /\ ~Fails(location, inscription)
  /\ IsOp(Body(inscription), "deploy")
  /\ Becomes(index_deploy(Index, location, Brc20Deploy(Unwrap(Body(inscription).json))))

\* a mint script: validate (which applies an accepted mint), insert the document
Mint(location, inscription) ==
  /\ Taking
  /\ HasBody(inscription)
  /\ ~Fails(location, inscription)
  /\ IsOp(Body(inscription), "mint")
  /\ Becomes(index_mint(Index, location, Brc20Mint(Unwrap(Body(inscription).json))))

\* a transfer script: handle the inscription, insert the document if it is valid
Transfer(location, inscription) ==
  /\ Taking
  /\ HasBody(inscription)
  /\ ~Fails(location, inscription)
  /\ IsOp(Body(inscription), "transfer")
  /\ Becomes(index_transfer(Index, location, Brc20Transfer(Unwrap(Body(inscription).json))))

\* the stream is exhausted: index_brc20 returns Ok
Finish ==
  /\ status = "running"
  /\ status' = "finished"
  /\ last' = [op |-> "none"]
  /\ UNCHANGED <<tickers, invalid_tx_map, sink, processed, inscribed>>

FirstLocation == [txid |-> Tx1, vout |-> 0]

GoodLocations ==
  {l \in Locations :
     /\ IsSome(get_owner_of_output(l, get_raw_transaction_info(l.txid)))
     /\ IsSome(get_raw_transaction_info(l.txid).blocktime)}

\* the inscriptions a stream is made of, each a location and the inscription
\* found there, by the branch of the loop body they take
OtherEvents == {<<FirstLocation, i>> : i \in OtherInscriptions}

FailEvents ==
  {<<FirstLocation, NonUtf8Inscription>>}
  \cup {<<l, Inscribed(MintJson(TickAbcd, <<"1">>))>> : l \in Locations \ GoodLocations}

DeployEvents == {<<l, Inscribed(j)>> : l \in GoodLocations, j \in DeployScripts}

MintEvents == {<<l, Inscribed(j)>> : l \in GoodLocations, j \in MintScripts}

TransferEvents == {<<l, Inscribed(j)>> : l \in GoodLocations, j \in TransferScripts}

Next ==
  \/ \E e \in OtherEvents : Skip(e[1], e[2])
  \/ \E e \in FailEvents : Fail(e[1], e[2])
  \/ \E e \in OtherEvents : Ignore(e[1], e[2])
  \/ \E e \in DeployEvents : Deploy(e[1], e[2])
  \/ \E e \in MintEvents : Mint(e[1], e[2])
  \/ \E e \in TransferEvents : Transfer(e[1], e[2])
  \/ Finish

Spec == Init /\ [][Next]_vars

\* The runs of Spec are those on a sink that acknowledges every insert. In the
\* runs of SinkSpec an insert can fail: insert_one returns an error with the
\* document stored or not, and insert_document panics on it.

\* the deploy branch of the loop body when the insert of the document fails:
\* the panic comes before the ticker is registered
InsertDeployFails(idx, location, validated_deploy_tx, stored) ==
  [tickers        |-> idx.tickers,
   invalid_tx_map |-> validated_deploy_tx.invalid_tx_map,
   sink           |-> IF stored
                      THEN Append(idx.sink, to_document(validated_deploy_tx.tx.deploy_script))
                      ELSE idx.sink,
   status         |-> "panicked",
   last           |-> [op |-> "insert", location |-> location, stored |-> stored],
   valid          |-> {}]

\* the mint branch of the loop body when the insert of the document fails: the
\* panic comes after validate has applied the mint
InsertMintFails(idx, location, mint_tx, stored) ==
  [tickers        |-> mint_tx.ticker_map,
   invalid_tx_map |-> mint_tx.invalid_tx_map,
   sink           |-> IF stored
                      THEN Append(idx.sink, to_document(mint_tx.tx.mint))
                      ELSE idx.sink,
   status         |-> "panicked",
   last           |-> [op |-> "insert", location |-> location, stored |-> stored],
   valid          |-> {}]

\* one iteration of the loop on an inscription whose document the sink fails to
\* insert
insert_document_fails(idx, location, inscription, stored) ==
  IF IsOp(Body(inscription), "deploy")
  THEN InsertDeployFails(idx, location,
                         validate_deploy_script(
                           Brc20DeployTx(TxOf(location),
                                         Brc20Deploy(Unwrap(Body(inscription).json))),
                           idx.invalid_tx_map, idx.tickers),
                         stored)
  ELSE InsertMintFails(idx, location,
                       validate(Brc20Mint(Unwrap(Body(inscription).json)), TxOf(location),
                                idx.tickers, idx.invalid_tx_map),
                       stored)

\* the loop body inserts a document for the inscription, and the insert fails
InsertFails(location, inscription, stored) ==
  /\ Taking
  /\ index_inscription(Index, location, inscription).sink # sink
  /\ Becomes(insert_document_fails(Index, location, inscription, stored))

SinkNext ==
  \/ \E e \in OtherEvents : Skip(e[1], e[2])
  \/ \E e \in FailEvents : Fail(e[1], e[2])
  \/ \E e \in OtherEvents : Ignore(e[1], e[2])
  \/ \E e \in DeployEvents : Deploy(e[1], e[2])
  \/ \E e \in MintEvents : Mint(e[1], e[2])
  \/ \E e \in TransferEvents : Transfer(e[1], e[2])
  \/ \E e \in DeployEvents \cup MintEvents : \E stored \in BOOLEAN : InsertFails(e[1], e[2], stored)
  \/ Finish

SinkSpec == Init /\ [][SinkNext]_vars

----------------------------------------------------------------------------
(* Properties of the index *)

\* every UserBalance held by a ticker of the registry
Balances ==
  UNION {{tickers[k].balances[a] : a \in DOMAIN tickers[k].balances} : k \in DOMAIN tickers}

\* the last iteration ran the validator named op
Ran(l, op) == l.op = op

\* the iteration that produced the locals l recorded an InvalidBrc20Tx
Rejected(l) ==
  \/ Ran(l, "deploy") /\ ~l.tx.is_valid
  \/ Ran(l, "mint") /\ ~l.tx.is_valid
  \/ Ran(l, "transfer") /\ l.reason # ""

\* C1: after every processed event, every registered ticker's total_minted is the
\* sum of the amounts of the records in its mints, and is at most its max_supply.
TotalMintedIsSumOfMints ==
  \A k \in DOMAIN tickers :
    /\ tickers[k].total_minted = get_total_minted_from_mint_txs(tickers[k])
    /\ FLe(get_total_minted_from_mint_txs(tickers[k]), tickers[k].max_supply)

\* C2: after every processed event, every UserBalance has overall_balance equal to
\* its transfer_receives plus its mints minus its transfer_sends.
OverallIsSumOfLogs ==
  \A ub \in Balances : ub.overall_balance = get_overall_balance_from_txs(ub)

\* the transferable balance of ub is at most its overall balance
Covered(ub) ==
  /\ FLe(get_transferable_balance(ub), ub.overall_balance)
  /\ FGe(get_available_balance(ub), Zero)

\* C3: after every processed event, the transferable balance of every UserBalance
\* is at most its overall_balance (its available balance is not negative): of
\* every balance of the registry, and of the balance to which
\* handle_inscribe_transfer_amount has just added a transfer inscription.
TransferableAtMostOverall ==
  /\ \A ub \in Balances : Covered(ub)
  /\ (Ran(last, "transfer") /\ IsSome(last.added_to)) => Covered(Unwrap(last.added_to))

\* C3, its case: a transfer inscription was added to the balance of an owner who
\* holds mints
TransferInscribedOnMintedBalance ==
  /\ Ran(last, "transfer")
  /\ IsSome(last.added_to)
  /\ Len(Unwrap(last.added_to).mints) > 0
  /\ DOMAIN Unwrap(last.added_to).active_transfer_inscriptions # {}

\* C4: an event that ends with an InvalidBrc20Tx recorded (a rejected deploy,
\* mint or transfer inscription) leaves the ticker registry, and with it every
\* ticker's total_minted, mints, transfers and balances, as it was.
RejectedLeavesRegistry == [][Rejected(last') => tickers' = tickers]_vars

\* C4, its case: a mint was rejected on a registered ticker that has mints, and
\* its InvalidBrc20Tx is in the map
MintRejectedOnMintedTicker ==
  /\ Ran(last, "mint")
  /\ Rejected(last)
  /\ contains_key(tickers, last.tx.mint.tick)
  /\ Len(tickers[last.tx.mint.tick].mints) > 0
  /\ contains_key(invalid_tx_map, last.tx.brc20_tx.tx_id)

\* the BRC-20 scripts of the stream
Brc20Events == DeployEvents \cup MintEvents \cup TransferEvents

\* the ticker an event concerns
TickOf(e) == to_lowercase(Unwrap(Unwrap(Body(e[2]).json).tick))

\* the index after the loop has taken the event e; a loop that has ended takes none
After(idx, e) ==
  IF idx.status = "running"
  THEN [f \in {"tickers", "invalid_tx_map", "sink", "status"} |->
          index_inscription(idx, e[1], e[2])[f]]
  ELSE idx

\* the ticker registry with its balances, and the InvalidTx registry
Registries(idx) == <<idx.tickers, idx.invalid_tx_map>>

\* C6: from every state (every prefix), two events at different locations that
\* concern different tickers leave the same ticker registry, balances and
\* InvalidTx registry in either order (and so after every suffix).
IndependentEventsCommute ==
  \A e1, e2 \in Brc20Events :
    (e1[1] # e2[1] /\ TickOf(e1) # TickOf(e2))
      => Registries(After(After(Index, e1), e2)) = Registries(After(After(Index, e2), e1))

\* the accepted transfer inscriptions x and y, if they are two, have two keys
DistinctKeys(x, y) == x.location # y.location => x.outpoint # y.outpoint

\* C7: each outpoint is a key of at most one active_transfer_inscriptions map of
\* the registry, and two distinct accepted transfer inscriptions never have the
\* same outpoint key: neither two that the run has accepted, nor one it has
\* accepted and one that the next iteration accepts.
OutpointKeysAreUnique ==
  /\ \A k1, k2 \in DOMAIN tickers :
       \A a1 \in DOMAIN tickers[k1].balances, a2 \in DOMAIN tickers[k2].balances :
         <<k1, a1>> # <<k2, a2>>
           => DOMAIN tickers[k1].balances[a1].active_transfer_inscriptions
                \cap DOMAIN tickers[k2].balances[a2].active_transfer_inscriptions = {}
  /\ \A x, y \in inscribed : DistinctKeys(x, y)
  /\ status = "running" =>
       \A e \in TransferEvents :
         \A y \in index_inscription(Index, e[1], e[2]).valid :
           \A x \in inscribed : DistinctKeys(x, y)

\* C8: every key of the ticker registry is lowercase, 4 characters long, and the
\* lowercase form of the tick of the ticker stored under it.
KeysAreLowercaseTicks ==
  \A k \in DOMAIN tickers :
    /\ IsLowercase(k)
    /\ chars_count(k) = TickLength
    /\ k = to_lowercase(tickers[k].ticker)

\* the last iteration took a deploy script, which validate_deploy_script
\* returned (l.tx.deploy_script) or panicked on (l.script)
TookDeploy(l) == Ran(l, "deploy") \/ Ran(l, "panic")

DeployScriptOf(l) == IF Ran(l, "deploy") THEN l.tx.deploy_script ELSE l.script

\* C9: a deploy whose tick, in lowercase, is already registered is rejected with
\* the reason "Ticker symbol already exists" and the registry is unchanged.
DuplicateDeployRejected ==
  [][(TookDeploy(last') /\ contains_key(tickers, to_lowercase(DeployScriptOf(last').tick)))
       => /\ Ran(last', "deploy")
          /\ Rejected(last')
          /\ last'.reason = "Ticker symbol already exists"
          /\ tickers' = tickers]_vars

\* the values a deploy script's dec, max and lim stand for
DecodedDecimals(script) ==
  IF IsSome(script.dec) THEN ParseDigits(Unwrap(script.dec)) ELSE DefaultDecimals

DecodedMax(script) == convert_to_float(script.max, DecodedDecimals(script)).val

DecodedLimit(script) ==
  IF IsSome(script.lim) /\ convert_to_float(Unwrap(script.lim), DecodedDecimals(script)).val # Zero
  THEN convert_to_float(Unwrap(script.lim), DecodedDecimals(script)).val
  ELSE DecodedMax(script)

\* the ticker t is new and carries what the script stands for
FreshTicker(t, script) ==
  /\ t.ticker = script.tick
  /\ t.max_supply = DecodedMax(script)
  /\ t.limit = DecodedLimit(script)
  /\ t.decimals = DecodedDecimals(script)
  /\ t.total_minted = Zero
  /\ t.mints = <<>>
  /\ t.transfers = <<>>
  /\ t.balances = EmptyMap

\* C10: an accepted deploy registers, under lowercase(tick), a new ticker whose
\* max_supply, limit and decimals are the values decoded from max, lim and dec,
\* with total_minted 0 and no mints, transfers or balances; every ticker
\* registered before is unchanged.
RegistersDecodedTicker ==
  [][(Ran(last', "deploy") /\ last'.tx.is_valid)
       => /\ DOMAIN tickers' = DOMAIN tickers \cup {to_lowercase(last'.tx.deploy_script.tick)}
          /\ to_lowercase(last'.tx.deploy_script.tick) \notin DOMAIN tickers
          /\ FreshTicker(tickers'[to_lowercase(last'.tx.deploy_script.tick)],
                         last'.tx.deploy_script)
          /\ \A k \in DOMAIN tickers : tickers'[k] = tickers[k]]_vars

\* C10, its case: a deploy with a "lim" of its own was accepted beside a ticker
\* that has mints and balances
DeployAcceptedBesideMintedTicker ==
  /\ Ran(last, "deploy")
  /\ last.tx.is_valid
  /\ IsSome(last.tx.deploy_script.lim)
  /\ last.tx.limit # last.tx.max_supply
  /\ \E k \in DOMAIN tickers : Len(tickers[k].mints) > 0 /\ DOMAIN tickers[k].balances # {}

\* what a deploy script's "lim" decodes to, "0" standing for an absent one
DecodedLim(script) ==
  convert_to_float(unwrap_or(script.lim, <<"0">>), DecodedDecimals(script))

\* C11: every registered ticker has 0 < limit <= max_supply and decimals <= 18;
\* a deploy whose lim decodes to more than its max is rejected, and an accepted
\* deploy whose lim is absent or decodes to 0 has limit = max_supply.
TickerParametersInRange ==
  [][/\ \A k \in DOMAIN tickers' :
          /\ FGt(tickers'[k].limit, Zero)
          /\ FLe(tickers'[k].limit, tickers'[k].max_supply)
          /\ tickers'[k].decimals <= MaxDecimals
     /\ (Ran(last', "deploy") /\ DecodedLim(last'.tx.deploy_script).ok
           /\ FGt(DecodedLim(last'.tx.deploy_script).val, DecodedMax(last'.tx.deploy_script)))
          => Rejected(last') /\ tickers' = tickers
     /\ (Ran(last', "deploy") /\ last'.tx.is_valid
           /\ DecodedLim(last'.tx.deploy_script).val = Zero)
          => tickers'[to_lowercase(last'.tx.deploy_script.tick)].limit
               = tickers'[to_lowercase(last'.tx.deploy_script.tick)].max_supply]_vars

\* C11, its case: a deploy with a "lim" below its max was accepted after a
\* deploy was rejected for a "lim" above its max
LimitBelowMaxAfterLimitAboveMax ==
  /\ Ran(last, "deploy")
  /\ last.tx.is_valid
  /\ FGt(last.tx.max_supply, last.tx.limit)
  /\ \E t \in DOMAIN invalid_tx_map :
       invalid_tx_map[t].reason = "Limit must be less than or equal to max supply"

\* C12: a deploy whose tick is not exactly 4 characters long is rejected and
\* registers no ticker, whatever its other fields are.
OddLengthTickRejected ==
  [][(TookDeploy(last') /\ chars_count(DeployScriptOf(last').tick) # TickLength)
       => /\ Ran(last', "deploy")
          /\ Rejected(last')
          /\ tickers' = tickers]_vars

\* the "dec" of a deploy script is an integer of 0 to 18
DecInRange(script) ==
  IF IsSome(parse_u8(Unwrap(script.dec)))
  THEN Unwrap(parse_u8(Unwrap(script.dec))) <= MaxDecimals
  ELSE FALSE

\* C13: a deploy whose dec is given and is no integer of 0 to 18 is rejected with
\* an InvalidBrc20Tx and the run goes on; an accepted deploy without dec has 18
\* decimals.
DecOutOfRangeRejected ==
  [][/\ (TookDeploy(last') /\ IsSome(DeployScriptOf(last').dec)
           /\ ~DecInRange(DeployScriptOf(last')))
          => /\ Ran(last', "deploy")
             /\ Rejected(last')
             /\ contains_key(invalid_tx_map', last'.tx.brc20_tx.tx_id)
             /\ status' = "running"
     /\ (Ran(last', "deploy") /\ last'.tx.is_valid /\ ~IsSome(last'.tx.deploy_script.dec))
          => tickers'[to_lowercase(last'.tx.deploy_script.tick)].decimals = DefaultDecimals]_vars

\* what validate_deploy_script decoded the "max" of the deploy it returned to
MaxOf(tx) == convert_to_float(tx.deploy_script.max, tx.decimals)

LookupByLowercaseTick ==
  [][/\ (Ran(last', "mint") /\ contains_key(tickers, to_lowercase(last'.tx.mint.tick)))
          => last'.reason # "Ticker symbol does not exist"
     /\ (Ran(last', "mint") /\ ~contains_key(tickers, to_lowercase(last'.tx.mint.tick)))
          => Rejected(last') /\ last'.reason = "Ticker symbol does not exist"
     /\ (Ran(last', "transfer")
           /\ contains_key(tickers, to_lowercase(last'.tx.transfer_script.tick)))
          => last'.reason # "Ticker not found"]_vars

\* what the "amt" of the mint script m decodes to with the decimals of the
\* ticker validate finds for it in the registry reg
MintAmount(m, reg) == convert_to_float(m.amt, reg[m.tick].decimals)

Minted(t) == get_total_minted_from_mint_txs(t)

\* the mint script m is on a ticker of the registry reg and decodes to an amount
\* of at most its limit
MintWithinLimit(m, reg) ==
  /\ contains_key(reg, m.tick)
  /\ MintAmount(m, reg).ok
  /\ FLe(MintAmount(m, reg).val, reg[m.tick].limit)

\* C17: a mint of at most the limit that would take the amount minted past the
\* max supply, some supply being left, is accepted with the amount
\* max_supply - total_minted and is no InvalidTx; afterwards total_minted is
\* max_supply.
MintClampedToRemainingSupply ==
  [][(Ran(last', "mint") /\ MintWithinLimit(last'.tx.mint, tickers)
        /\ FGt(FAdd(Minted(tickers[last'.tx.mint.tick]), MintAmount(last'.tx.mint, tickers).val),
               tickers[last'.tx.mint.tick].max_supply)
        /\ FGt(tickers[last'.tx.mint.tick].max_supply, Minted(tickers[last'.tx.mint.tick])))
       => /\ ~Rejected(last')
          /\ invalid_tx_map' = invalid_tx_map
          /\ last'.tx.amount = FSub(tickers[last'.tx.mint.tick].max_supply,
                                    Minted(tickers[last'.tx.mint.tick]))
          /\ tickers'[last'.tx.mint.tick].total_minted
               = tickers[last'.tx.mint.tick].max_supply]_vars

\* C18: once the amount minted on a ticker equals its max supply, every later
\* mint of a positive amount on it is rejected: it appends no mint record and
\* changes no balance.
MintOnExhaustedSupplyRejected ==
  [][(Ran(last', "mint") /\ contains_key(tickers, last'.tx.mint.tick)
        /\ MintAmount(last'.tx.mint, tickers).ok
        /\ FGt(MintAmount(last'.tx.mint, tickers).val, Zero)
        /\ Minted(tickers[last'.tx.mint.tick]) = tickers[last'.tx.mint.tick].max_supply)
       => /\ Rejected(last')
          /\ tickers' = tickers]_vars

\* the balance of owner on the ticker t, a new one if it has none
BalanceOf(t, owner) ==
  IF contains_key(t.balances, owner) THEN t.balances[owner] ELSE UserBalance

\* C19: an accepted mint of the effective amount e by the owner A adds e to A's
\* overall_balance on the ticker and to the ticker's total_minted, creates A's
\* balance if there was none, and appends one record to the ticker's mints and
\* to A's mint log.
AcceptedMintCredited ==
  [][(Ran(last', "mint") /\ last'.tx.is_valid)
       => /\ contains_key(tickers'[last'.tx.mint.tick].balances, last'.tx.brc20_tx.owner)
          /\ BalanceOf(tickers'[last'.tx.mint.tick], last'.tx.brc20_tx.owner).overall_balance
               = FAdd(BalanceOf(tickers[last'.tx.mint.tick],
                                last'.tx.brc20_tx.owner).overall_balance,
                      last'.tx.amount)
          /\ tickers'[last'.tx.mint.tick].total_minted
               = FAdd(tickers[last'.tx.mint.tick].total_minted, last'.tx.amount)
          /\ Len(tickers'[last'.tx.mint.tick].mints)
               = Len(tickers[last'.tx.mint.tick].mints) + 1
          /\ Len(BalanceOf(tickers'[last'.tx.mint.tick], last'.tx.brc20_tx.owner).mints)
               = Len(BalanceOf(tickers[last'.tx.mint.tick], last'.tx.brc20_tx.owner).mints) + 1]_vars

\* what the owner of ub holds and has not put in an outstanding transfer
\* inscription: minted and received less sent, less the transferable balance
Available(ub) == FSub(get_overall_balance_from_txs(ub), get_transferable_balance(ub))

\* what the "amt" of the transfer script t decodes to with the decimals of the
\* ticker found for it in the registry reg
TransferAmount(t, reg) == convert_to_float(t.amt, reg[t.tick].decimals)

\* the transfer tx is on a ticker of the registry reg that has a balance of its
\* owner, and its amt decodes
TransferByHolder(tx, reg) ==
  /\ contains_key(reg, tx.transfer_script.tick)
  /\ contains_key(reg[tx.transfer_script.tick].balances, tx.inscription_tx.owner)
  /\ TransferAmount(tx.transfer_script, reg).ok

\* C20: a transfer inscription on a registered ticker by an owner with a balance
\* is accepted exactly when its amount is at most the owner's available balance;
\* a larger one is rejected with "Transfer amount exceeds available balance" and
\* leaves the overall balance and the active set unchanged.
TransferAcceptedIffAvailable ==
  [][(Ran(last', "transfer") /\ TransferByHolder(last'.tx, tickers))
       => /\ ~Rejected(last')
               <=> FLe(TransferAmount(last'.tx.transfer_script, tickers).val,
                       Available(tickers[last'.tx.transfer_script.tick]
                                   .balances[last'.tx.inscription_tx.owner]))
          /\ Rejected(last')
               => /\ last'.reason = "Transfer amount exceeds available balance"
                  /\ tickers' = tickers]_vars

\* the balance of the owner of the transfer tx on its ticker in the registry reg
HolderBalance(tx, reg) == reg[tx.transfer_script.tick].balances[tx.inscription_tx.owner]

\* C21: after an accepted transfer inscription of the amount amt by the owner A,
\* A's active_transfer_inscriptions in the registry holds the outpoint of the
\* inscription, A's transferable balance is amt more, A's available balance amt
\* less, and A's overall_balance is unchanged.
AcceptedTransferIsOutstanding ==
  [][(Ran(last', "transfer") /\ ~Rejected(last'))
       => /\ contains_key(HolderBalance(last'.tx, tickers').active_transfer_inscriptions,
                          get_outpoint(last'.tx.inscription_tx))
          /\ get_transferable_balance(HolderBalance(last'.tx, tickers'))
               = FAdd(get_transferable_balance(HolderBalance(last'.tx, tickers)),
                      last'.tx.amount)
          /\ get_available_balance(HolderBalance(last'.tx, tickers'))
               = FSub(get_available_balance(HolderBalance(last'.tx, tickers)),
                      last'.tx.amount)
          /\ HolderBalance(last'.tx, tickers').overall_balance
               = HolderBalance(last'.tx, tickers).overall_balance]_vars

\* the invalid map holds the transaction of tx with the reason
Recorded(map, brc20_tx, reason) ==
  /\ contains_key(map, brc20_tx.tx_id)
  /\ map[brc20_tx.tx_id] = InvalidBrc20Tx(brc20_tx, reason)

SpentBy(e) ==
  {get_raw_transaction_info(e[1].txid).vin[i] :
     i \in 1..Len(get_raw_transaction_info(e[1].txid).vin)}

\* the owner of the first output of the transaction of the event e
ReceiverOf(e) == Unwrap(get_raw_transaction_info(e[1].txid).vout[1].address)

\* the registry after the loop has taken the event e
TickersAfter(e) == index_inscription(Index, e[1], e[2]).tickers

\* the spend of the transfer inscription r to the owner b has turned the
\* registry before into the registry after
Sent(r, b, before, after) ==
  /\ contains_key(after[r.tick].balances, b)
  /\ after[r.tick].balances[r.owner].overall_balance
       = FSub(before[r.tick].balances[r.owner].overall_balance, r.amount)
  /\ after[r.tick].balances[b].overall_balance
       = FAdd(BalanceOf(before[r.tick], b).overall_balance, r.amount)
  /\ ~contains_key(after[r.tick].balances[r.owner].active_transfer_inscriptions, r.outpoint)
  /\ Len(after[r.tick].balances[r.owner].transfer_sends)
       = Len(before[r.tick].balances[r.owner].transfer_sends) + 1
  /\ Len(after[r.tick].balances[b].transfer_receives)
       = Len(BalanceOf(before[r.tick], b).transfer_receives) + 1
  /\ Len(after[r.tick].transfers) = Len(before[r.tick].transfers) + 1

\* C23: when the loop takes an event whose transaction spends the outpoint of an
\* accepted transfer inscription of the sender A to the receiver B, afterwards
\* A's overall_balance is less and B's (created if absent) more by its amount,
\* the record is out of A's active set and is appended to A's transfer_sends,
\* to B's transfer_receives and to the ticker's transfers.
SpendMovesBalance ==
  status = "running" =>
    \A r \in inscribed :
      \A e \in {x \in Brc20Events : r.outpoint \in SpentBy(x) /\ ReceiverOf(x) # r.owner} :
        Sent(r, ReceiverOf(e), tickers, TickersAfter(e))

\* C24: an oracle error that concerns one event (a raw transaction without
\* blocktime, an output script no address can be derived from) is recorded as an
\* InvalidTx of that event and the run goes on with the next events.
OracleErrorRecorded ==
  [][(Ran(last', "error") /\ last'.utf8)
       => /\ status' = "running"
          /\ contains_key(invalid_tx_map', last'.location.txid)]_vars

\* C25: an event whose payload is not UTF-8, is not JSON, lacks a required field
\* or has another op than deploy, mint and transfer is ignored: tickers,
\* balances, the InvalidTx registry and the sink are unchanged and the run goes
\* on.
UnparsablePayloadIgnored ==
  [][(Ran(last', "ignore") \/ (Ran(last', "error") /\ ~last'.utf8))
       => /\ tickers' = tickers
          /\ invalid_tx_map' = invalid_tx_map
          /\ sink' = sink
          /\ status' = "running"]_vars

\* the Brc20Tx of the operation the iteration with the locals l validated
TxOfOperation(l) == IF Ran(l, "transfer") THEN l.tx.inscription_tx ELSE l.tx.brc20_tx

\* C26: every event a validator rejects is recorded in the InvalidTx registry
\* under its txid with the reason of the rejection, and every entry is still
\* there with its reason after any later event.
RejectionsStayRecorded ==
  [][/\ Rejected(last') => Recorded(invalid_tx_map', TxOfOperation(last'), last'.reason)
     /\ \A t \in DOMAIN invalid_tx_map :
          /\ contains_key(invalid_tx_map', t)
          /\ invalid_tx_map'[t].reason = invalid_tx_map[t].reason]_vars

\* the iteration with the locals l took no operation to a validator, or ended
\* in one
TookNoOperation(l) == l.op \in {"skip", "ignore", "error", "panic"}

\* C27: the sink gets documents of accepted operations only: a rejected or
\* ignored event inserts nothing, and every accepted deploy and every accepted
\* mint inserts one document, its script, after those inserted before.
SinkHoldsAcceptedInOrder ==
  [][/\ (Rejected(last') \/ TookNoOperation(last')) => sink' = sink
     /\ (Ran(last', "deploy") /\ last'.tx.is_valid)
          => sink' = Append(sink, to_document(last'.tx.deploy_script))
     /\ (Ran(last', "mint") /\ last'.tx.is_valid)
          => sink' = Append(sink, to_document(last'.tx.mint))]_vars

\* C27, its case: the sink holds the document of a deploy and after it that of
\* a mint, and the event after them was rejected
RejectedAfterDeployAndMintInSink ==
  /\ Rejected(last)
  /\ Len(sink) = 2
  /\ sink[1].op = "deploy"
  /\ sink[2].op = "mint"

NotNegative(ub) ==
  /\ FGe(ub.overall_balance, Zero)
  /\ FGe(get_transferable_balance(ub), Zero)

\* C29: in every reachable state every UserBalance has overall_balance >= 0 and
\* transferable balance >= 0, whatever amounts the payloads carry: every balance
\* of the registry, and the balance to which handle_inscribe_transfer_amount has
\* just added a transfer inscription.
BalancesNotNegative ==
  /\ \A ub \in Balances : NotNegative(ub)
  /\ (Ran(last, "transfer") /\ IsSome(last.added_to)) => NotNegative(Unwrap(last.added_to))

\* C30: the events are handled in the order of the stream, each once: every step
\* of the run is the whole iteration for the next event, or the return after the
\* last one, and the run does not end in any other way, so that no event of the
\* stream is left unhandled.
RunEndsAfterLastEvent ==
  [][/\ \/ processed' = processed + 1
        \/ processed' = processed /\ status' = "finished"
     /\ status' \in {"running", "finished"}]_vars

\* the deploy self before any check
Unchecked(self) == [self |-> self, reason |-> ""]

\* the reason of the first rule the deploy self violates in the order: tick
\* length, tick registered, dec, max, lim; "" if it violates none
FirstViolated(self, ticker_map) ==
  IF chars_count(self.deploy_script.tick) # TickLength
  THEN "Ticker symbol must be 4 characters long"
  ELSE IF contains_key(ticker_map, to_lowercase(self.deploy_script.tick))
  THEN "Ticker symbol already exists"
  ELSE IF CheckDec(Unchecked(self)).reason # ""
  THEN CheckDec(Unchecked(self)).reason
  ELSE IF CheckMax(CheckDec(Unchecked(self))).reason # ""
  THEN CheckMax(CheckDec(Unchecked(self))).reason
  ELSE CheckLimit(CheckMax(CheckDec(Unchecked(self)))).reason

\* C31: the reason recorded for a rejected deploy is that of the first rule it
\* violates in the order: tick length, tick already registered, dec, max, lim.
FirstViolatedRuleRecorded ==
  [][(Ran(last', "deploy") /\ Rejected(last'))
       => /\ last'.reason
               = FirstViolated(Brc20DeployTx(last'.tx.brc20_tx, last'.tx.deploy_script), tickers)
          /\ Recorded(invalid_tx_map', last'.tx.brc20_tx, last'.reason)]_vars


\* C32: a transfer inscription on a registered ticker whose amt does not decode
\* with the decimals of the ticker is rejected with an entry in the InvalidTx
\* map and adds nothing to the active transfer inscriptions of its owner.
UndecodableTransferAmountRejected ==
  [][(/\ Ran(last', "transfer")
      /\ contains_key(tickers, last'.tx.transfer_script.tick)
      /\ ~TransferAmount(last'.tx.transfer_script, tickers).ok)
       => /\ Rejected(last')
          /\ Recorded(invalid_tx_map', last'.tx.inscription_tx, last'.reason)
          /\ tickers' = tickers]_vars


\* the event e carries a transfer inscription on the ticker tick whose owner is
\* the receiver of its transaction
TransferByReceiver(e, tick) ==
  /\ Unwrap(Unwrap(Body(e[2]).json).tick) = tick
  /\ get_owner_of_output(e[1], get_raw_transaction_info(e[1].txid)) = Some(ReceiverOf(e))

\* C33: an event that spends an accepted transfer inscription and carries a new
\* payload has the spend applied first and the payload validated on the result:
\* a transfer inscription of the receiver carried by the spending event finds
\* the balance the spend has given the receiver.
PayloadValidatedAfterSpend ==
  status = "running" =>
    \A r \in inscribed :
      \A e \in {x \in TransferEvents : /\ r.outpoint \in SpentBy(x)
                                       /\ ReceiverOf(x) # r.owner
                                       /\ TransferByReceiver(x, r.tick)} :
        index_inscription(Index, e[1], e[2]).last.reason # "User balance not found"


\* the operation of the sink document d is in the registry reg: the ticker of a
\* deploy is registered, the mint is in the log of its ticker
InMemory(d, reg) ==
  IF d.op = "deploy"
  THEN contains_key(reg, to_lowercase(d.tick))
  ELSE /\ contains_key(reg, d.tick)
       /\ \E i \in 1..Len(reg[d.tick].mints) : reg[d.tick].mints[i].mint = d

\* C34: the in-memory change of an accepted operation is made before its
\* document is inserted, so that also after an insert that failed every
\* document of the sink is of an operation the in-memory state has.
SinkDocumentsInMemory ==
  \A i \in 1..Len(sink) : InMemory(sink[i], tickers)


\* the balance the transfer inscription of the last event was added to
AddedTo == Unwrap(last.added_to)

\* the last event is a transfer inscription added to the active set of a balance
Added == Ran(last, "transfer") /\ IsSome(last.added_to)

\* C35: the decrease of the sender's overall_balance by a record of the sender's
\* active set does not fail: add_transfer_send of a record on the balance that
\* holds it finds overall_balance >= amount and does not panic, and so does the
\* decrease of the registry's balance of the owner by every accepted amount.
SendOfActiveRecordSucceeds ==
  /\ \A r \in inscribed :
       decrease_overall_balance(tickers[r.tick].balances[r.owner], r.amount).ok
  /\ Added =>
       \A o \in DOMAIN AddedTo.active_transfer_inscriptions :
         ~add_transfer_send(AddedTo, AddedTo.active_transfer_inscriptions[o]).panics

\* C35, its case: a record of a negative amount is in the active set of a
\* balance with a mint, and add_transfer_send of it leaves the record in
\* transfer_sends and the overall balance greater by the amount
NegativeRecordSent ==
  /\ Added
  /\ AddedTo.mints # <<>>
  /\ last.tx.amount.m < 0
  /\ \E o \in DOMAIN AddedTo.active_transfer_inscriptions :
       /\ Len(add_transfer_send(AddedTo, AddedTo.active_transfer_inscriptions[o]).ub.transfer_sends) = 1
       /\ FGt(add_transfer_send(AddedTo, AddedTo.active_transfer_inscriptions[o]).ub.overall_balance,
              AddedTo.overall_balance)


\* the overall balances of a ticker's balances, as the amounts of a map
Overall(balances) == [a \in DOMAIN balances |-> [amount |-> balances[a].overall_balance]]

\* the sum of overall_balance over the addresses of the ticker t
SumOfOverall(t) == SumOver(Overall(t.balances), DOMAIN t.balances)

\* C36: for every ticker the sum of overall_balance over all addresses is the
\* ticker's total_minted.
OverallSumsToTotalMinted ==
  \A k \in DOMAIN tickers :
    /\ FGe(SumOfOverall(tickers[k]), tickers[k].total_minted)
    /\ FLe(SumOfOverall(tickers[k]), tickers[k].total_minted)

\* C36, its case: a ticker with accepted mints of two owners
MintsOfTwoHolders ==
  \E k \in DOMAIN tickers :
    /\ Cardinality(DOMAIN tickers[k].balances) = 2
    /\ Len(tickers[k].mints) = 2


\* the last iteration called one of the three validators
Validated(l) == Ran(l, "deploy") \/ Ran(l, "mint") \/ Ran(l, "transfer")

\* C37: every call of a validator ends in one of two ways: the record returned
\* has is_valid = true, the operation is applied and no InvalidTx is added; or it
\* has is_valid = false, the registry is unchanged and an InvalidTx of the
\* event's transaction is added. The record handle_inscribe_transfer_amount
\* returns has is_valid = true exactly when the inscription was added to an
\* active set.
ValidatorAcceptsOrRecords ==
  [][Validated(last') =>
       /\ \/ /\ last'.tx.is_valid
             /\ invalid_tx_map' = invalid_tx_map
             /\ Ran(last', "transfer") \/ tickers' # tickers
          \/ /\ ~last'.tx.is_valid
             /\ tickers' = tickers
             /\ Recorded(invalid_tx_map', TxOfOperation(last'), last'.reason)
       /\ Ran(last', "transfer") => (last'.tx.is_valid <=> IsSome(last'.added_to))]_vars


\* the record rec of an active set of the address a is an inscription of a that
\* is valid and not spent
ActiveOf(rec, a) ==
  /\ rec.inscription_tx.owner = a
  /\ rec.is_valid
  /\ rec.transfer_tx = None
  /\ rec.receiver = None

\* C38: every record in the active_transfer_inscriptions of an address A has
\* the inscription owner A, is valid and has no transfer_tx and no receiver: in
\* the balances of the registry, and in the balance of the owner to which
\* handle_inscribe_transfer_amount has just added a record, where the record is
\* kept under the outpoint of its inscription.
ActiveRecordsAreOfTheirHolder ==
  /\ \A k \in DOMAIN tickers :
       \A a \in DOMAIN tickers[k].balances :
         \A o \in DOMAIN tickers[k].balances[a].active_transfer_inscriptions :
           ActiveOf(tickers[k].balances[a].active_transfer_inscriptions[o], a)
  /\ Added =>
       \A o \in DOMAIN AddedTo.active_transfer_inscriptions :
         /\ ActiveOf(AddedTo.active_transfer_inscriptions[o], last.tx.inscription_tx.owner)
         /\ o = get_outpoint(AddedTo.active_transfer_inscriptions[o].inscription_tx)
         /\ \A i \in 1..Len(AddedTo.mints) :
              AddedTo.mints[i].brc20_tx.owner
                = AddedTo.active_transfer_inscriptions[o].inscription_tx.owner

\* C38, its case: the balance of B, who has minted, holds one active record of
\* the amount 0, inscribed by B
ActiveRecordOfSecondHolder ==
  /\ Added
  /\ last.tx.inscription_tx.owner = "B"
  /\ last.tx.amount = Zero
  /\ Len(AddedTo.mints) = 1
  /\ Cardinality(DOMAIN AddedTo.active_transfer_inscriptions) = 1


\* the ticker after is the ticker before with the parameters of its deploy
SameDeploy(before, after) ==
  /\ after.ticker = before.ticker
  /\ after.max_supply = before.max_supply
  /\ after.limit = before.limit
  /\ after.decimals = before.decimals
  /\ after.deploy_tx = before.deploy_tx

\* C39: a registered ticker is never removed or replaced: after every event it
\* is still registered under its key, with the tick, max_supply, limit, decimals
\* and deploy_tx it was registered with.
RegisteredTickerKept ==
  [][\A k \in DOMAIN tickers :
       /\ contains_key(tickers', k)
       /\ SameDeploy(tickers[k], tickers'[k])]_vars

\* C39, its case: a deploy with other parameters on the tick of a ticker that
\* has a mint was rejected, and the ticker has the parameters of its own deploy
OtherDeployOnMintedTicker ==
  /\ Ran(last, "deploy")
  /\ Rejected(last)
  /\ contains_key(tickers, to_lowercase(last.tx.deploy_script.tick))
  /\ tickers[to_lowercase(last.tx.deploy_script.tick)].mints # <<>>
  /\ tickers[to_lowercase(last.tx.deploy_script.tick)].deploy_tx.deploy_script.max
       # last.tx.deploy_script.max


\* the sequence after is the sequence before with records appended
Extends(before, after) ==
  /\ Len(after) >= Len(before)
  /\ SubSeq(after, 1, Len(before)) = before

\* the logs of the balance after extend those of the balance before
BalanceLogsExtend(before, after) ==
  /\ Extends(before.mints, after.mints)
  /\ Extends(before.transfer_sends, after.transfer_sends)
  /\ Extends(before.transfer_receives, after.transfer_receives)

\* C40: the history logs are append-only: after every event the mints and
\* transfers of every ticker, and the mints, transfer_sends and
\* transfer_receives of every balance, extend what they were before, and every
\* balance is still there.
LogsAreAppendOnly ==
  [][\A k \in DOMAIN tickers :
       /\ contains_key(tickers', k)
       /\ Extends(tickers[k].mints, tickers'[k].mints)
       /\ Extends(tickers[k].transfers, tickers'[k].transfers)
       /\ \A a \in DOMAIN tickers[k].balances :
            /\ contains_key(tickers'[k].balances, a)
            /\ BalanceLogsExtend(tickers[k].balances[a], tickers'[k].balances[a])]_vars

\* C40, its case: a second mint was appended to the log of a ticker and to the
\* log of the balance that had the first one
SecondMintAppended ==
  /\ Ran(last, "mint")
  /\ last.tx.is_valid
  /\ Len(tickers[last.tx.mint.tick].mints) = 2
  /\ Len(tickers[last.tx.mint.tick].balances[last.tx.brc20_tx.owner].mints) = 2

====
